---- MODULE Spec2Model ----
(***************************************************************************)
(* go-midi-rtp: the RTP-MIDI packet codec (rtp/rtp.go, the MIDI command    *)
(* table) and the session's receive loops, connection registry and         *)
(* outbound broadcast (session/session.go).                                *)
(*                                                                         *)
(* Bytes are integers 0..255.  A Go slice is a record                      *)
(*   [a |-> backing bytes, n |-> len, c |-> cap]                           *)
(* whose backing array holds a[1..Len(a)] followed by zeroes up to cap:    *)
(* indexing at i >= len panics, re-slicing up to cap is legal and reads    *)
(* whatever the backing array holds there.                                 *)
(***************************************************************************)
EXTENDS Integers, Sequences, FiniteSets, TLC

VARIABLES
    session,      \* MIDINetworkSession: SSRC, SequenceNumber, handler
    connections,  \* MIDINetworkSession.connections (sync.Map): SSRC -> stream id
    streams,      \* heap of MIDINetworkStream objects, by allocation order
    pc,           \* position of each messageLoop goroutine and caller thread
    buffer,       \* messageLoop: the bytes written so far into its read buffer
    nread,        \* messageLoop: n of the last ReadFrom
    lmsg,         \* messageLoop: the decoded message being processed
    lconn,        \* messageLoop: conn, found of getConnection / loadMIDIConnection
    call,         \* caller thread: locals of the running SendMIDICommands / End
    hist,         \* observations: what happened, for the properties
    cin,          \* codec: the slice handed to Decode
    cout,         \* codec: what Decode returned
    emsg          \* codec: the MIDIMessage handed to Encode, and its collaborators

vars == <<session, connections, streams, pc, buffer, nread, lmsg, lconn, call, hist, cin, cout, emsg>>

(***************************************************************************)
(* Byte helpers                                                            *)
(***************************************************************************)
\* b & mask > 0 for a one-bit mask
HasBit(b, mask) == (b \div mask) % 2 = 1

\* binary.BigEndian.Uint16 / Uint32 of consecutive octets
Uint16(hi, lo) == hi * 256 + lo

Uint32(b0, b1, b2, b3) == ((b0 * 256 + b1) * 256 + b2) * 256 + b3

\* buffer[i] of the backing array (0-based), zero where never written
At(s, i) == IF i + 1 <= Len(s.a) THEN s.a[i + 1] ELSE 0

\* buffer[lo:hi] as a sequence of octets (0-based, hi exclusive)
Octets(s, lo, hi) == [k \in 1..(hi - lo) |-> At(s, lo + k - 1)]

\* a slice whose backing array is exactly its bytes (a []byte literal)
Lit(bytes) == [a |-> bytes, n |-> Len(bytes), c |-> Len(bytes)]

(***************************************************************************)
(* rtp.go constants                                                        *)
(***************************************************************************)
minimumBufferLength == 12

payloadType == 97

markerBit == 128

ptMask == 127

deltaTimeMask == 127

\* a faulty variant: the continuation bit is not masked off
deltaTimeNoMask == deltaTimeMask + deltaTimeMask + 2

\* x & deltaTimeMask is x % (deltaTimeMask + 1)
deltaTimeMask1 == deltaTimeMask + 1

deltaTimeHasNext == 128

bigHeaderBit == 128

journalBit == 64

zeroDeltaBit == 32

lenMask == 15

firstByte == 128

secondByte == payloadType

emtpyHeader == 0

(***************************************************************************)
(* midi command table (GetDataLength, GetCommandInfo, commandsInfos)       *)
(***************************************************************************)
commandsInfos ==
    [c \in {128, 144, 160, 176, 192, 208, 224, 240, 241, 242, 243, 246,
            248, 250, 251, 252, 254, 255} |->
        CASE c \in {128, 144, 160, 176, 224, 242} -> 2
          [] c \in {192, 208, 241, 243} -> 1
          [] c = 240 -> -1
          [] OTHER -> 0]

\* <<>> is nil, <<d>> is &commandInfo{dataLength: d}
GetCommandInfo(command) ==
    IF command \in DOMAIN commandsInfos THEN <<commandsInfos[command]>>
    ELSE IF (command - (command % 16)) \in DOMAIN commandsInfos
         THEN <<commandsInfos[command - (command % 16)]>>
         ELSE <<>>

\* a faulty variant: the table alone, without the fallback to the high nibble
GetDataLengthExact(command) ==
    IF command \in DOMAIN commandsInfos THEN commandsInfos[command] ELSE 0

GetDataLength(command) ==
    LET info == GetCommandInfo(command)
    IN  IF info # <<>> THEN info[1] ELSE 0

(***************************************************************************)
(* parseMIDIList                                                           *)
(* The result: cmds (the commands returned), err ("nil" or "incomplete"),  *)
(* panic (an index out of range stopped it), iters (loop iterations run).  *)
(* Each command also records where it was read: from (the cursor when its  *)
(* iteration began), at (the offset of its status octet or, under running  *)
(* status, of its first data octet) and to (the cursor after it).          *)
(***************************************************************************)
\* the delta-time loop (k = 0..3) from offset: <<deltaTime, offset, panicked>>
RECURSIVE readDelta(_, _, _, _)
readDelta(buf, offset, k, deltaTime) ==
    IF k >= 4 THEN <<deltaTime, offset, FALSE>>
    ELSE IF offset >= buf.n THEN <<deltaTime, offset, TRUE>>
    ELSE LET currentOctet == At(buf, offset)
             \* uint32 << 7 cannot overflow: at most 4 octets of 7 bits
             dt == (deltaTime * 128) + (currentOctet % deltaTimeMask1)
         IN  IF currentOctet < deltaTimeHasNext
             THEN <<dt, offset + 1, FALSE>>
             ELSE readDelta(buf, offset + 1, k + 1, dt)

\* a faulty variant: the scan stops after one octet
sysexScanOne(buf, offset, dataLength) ==
    IF buf.n > offset + dataLength /\ At(buf, offset + dataLength) < 128
    THEN dataLength + 1 ELSE dataLength

\* the SysEx scan: dataLength counts up while len(buffer) > offset+dataLength
\* and the octet there is below 0x80; the result is the first count at which
\* that condition fails
sysexScan(buf, offset, dataLength) ==
    LET last == IF buf.n - offset > dataLength THEN buf.n - offset ELSE dataLength
        stops == {d \in dataLength..last :
                     ~(buf.n > offset + d /\ At(buf, offset + d) < 128)}
    IN  CHOOSE d \in stops : \A e \in stops : d <= e

\* a faulty variant: the bounds test is off by one
NotEnoughDataOffByOne(buf, offset, dataLength) == buf.n <= offset + dataLength

\* len(buffer) < offset+dataLength
NotEnoughData(buf, offset, dataLength) == buf.n < offset + dataLength

RECURSIVE parseLoop(_, _, _, _, _, _, _)
parseLoop(buf, offset, end, Z, commands, lastStatusByte, iters) ==
    IF ~(offset < end)
    THEN [cmds |-> commands, err |-> "nil", panic |-> FALSE, iters |-> iters]
    ELSE
    LET hasDelta == Len(commands) > 0 \/ Z
        d   == IF hasDelta THEN readDelta(buf, offset, 0, 0) ELSE <<0, offset, FALSE>>
        off1 == d[2]
        Panic == [cmds |-> commands, err |-> "nil", panic |-> TRUE, iters |-> iters + 1]
    IN  IF d[3] \/ off1 >= buf.n THEN Panic
        ELSE
        LET octet == At(buf, off1)
            hasOwnStatusByte == octet >= 128
            statusByte == IF hasOwnStatusByte THEN octet ELSE lastStatusByte
            last2 == IF hasOwnStatusByte THEN octet ELSE lastStatusByte
            off2 == IF hasOwnStatusByte THEN off1 + 1 ELSE off1
            scanned == sysexScan(buf, off2, 0)
            sysexPanic == statusByte = 240 /\ off2 + scanned >= buf.n
            dataLength ==
                IF statusByte = 240
                THEN IF At(buf, off2 + scanned) # 247 THEN scanned ELSE scanned + 1
                ELSE GetDataLength(statusByte)
        IN  IF sysexPanic THEN Panic
            ELSE IF NotEnoughData(buf, off2, dataLength)
            THEN [cmds |-> commands, err |-> "incomplete", panic |-> FALSE,
                  iters |-> iters + 1]
            ELSE
            LET payload == IF dataLength > 0
                           THEN <<statusByte>> \o Octets(buf, off2, off2 + dataLength)
                           ELSE <<statusByte>>
                off3 == IF dataLength > 0 THEN off2 + dataLength ELSE off2
                command == [DeltaTime |-> d[1], Payload |-> payload,
                            from |-> offset, at |-> off1, to |-> off3]
                emit == ~(payload[1] = 240 /\ payload[Len(payload)] # 247)
            IN  parseLoop(buf, off3, end, Z,
                          IF emit THEN Append(commands, command) ELSE commands,
                          last2, iters + 1)

\* a faulty variant: the loop runs two octets past the end of the list
parseMIDIListPastEnd(buf, offset, header) ==
    parseLoop(buf, offset, offset + header.Len + 2, header.preceedingDeltaTime, <<>>, 0, 0)

parseMIDIList(buf, offset, header) ==
    parseLoop(buf, offset, offset + header.Len, header.preceedingDeltaTime, <<>>, 0, 0)

(***************************************************************************)
(* Decode                                                                  *)
(* The result: msg and err as returned ("nil", "too_small",                *)
(* "pt_mismatch"), panic (an index or slice bound out of range stopped     *)
(* it), parsed (parseMIDIList was called), perr (what parseMIDIList        *)
(* returned as its error), iters, listStart and Len of the list header.    *)
(***************************************************************************)
NoMessage == [SequenceNumber |-> 0, SSRC |-> 0, Commands |-> <<>>]

\* len(buffer) < minimumBufferLength
TooSmall(buf) == buf.n < minimumBufferLength

\* a faulty variant: Valid never reports a mismatch
RTPHeaderValidAny(h) == TRUE

\* RTPMIDIHeader.Valid() returns nil
RTPHeaderValid(h) == h.PayloadType = payloadType

\* what Decode returns as err once parseMIDIList has returned perr
ErrAfterParse(perr) == "nil"

DecodeResult(msg, err, panic, parsed, perr, iters, listStart, len) ==
    [msg |-> msg, err |-> err, panic |-> panic, parsed |-> parsed, perr |-> perr,
     iters |-> iters, listStart |-> listStart, Len |-> len]

Decode(buf) ==
    IF TooSmall(buf)
    THEN DecodeResult(NoMessage, "too_small", FALSE, FALSE, "nil", 0, 0, 0)
    ELSE
    LET header == [PayloadType |-> At(buf, 1) % (ptMask + 1),
                   Marker |-> At(buf, 1) \div markerBit]
        msg0 == [SequenceNumber |-> Uint16(At(buf, 2), At(buf, 3)),
                 SSRC |-> Uint32(At(buf, 8), At(buf, 9), At(buf, 10), At(buf, 11)),
                 Commands |-> <<>>]
    IN  IF ~RTPHeaderValid(header)
        THEN DecodeResult(msg0, "pt_mismatch", FALSE, FALSE, "nil", 0, 0, 0)
        ELSE IF 12 >= buf.n
        THEN DecodeResult(msg0, "nil", TRUE, FALSE, "nil", 0, 0, 0)
        ELSE
        LET b12 == At(buf, 12)
            big == HasBit(b12, bigHeaderBit)
            listStart == IF big THEN 14 ELSE 13
            mlh == [bigHeader |-> big,
                    hasJournal |-> HasBit(b12, journalBit),
                    preceedingDeltaTime |-> HasBit(b12, zeroDeltaBit),
                    Len |-> IF big THEN Uint16(b12, At(buf, 13)) % 4096
                            ELSE b12 % (lenMask + 1)]
        IN  IF big /\ 14 > buf.c
            THEN DecodeResult(msg0, "nil", TRUE, FALSE, "nil", 0, listStart, 0)
            ELSE
            LET r == parseMIDIList(buf, listStart, mlh)
            IN  DecodeResult([msg0 EXCEPT !.Commands = r.cmds], ErrAfterParse(r.err),
                             r.panic, TRUE, r.err, r.iters, listStart, mlh.Len)

(***************************************************************************)
(* Encode                                                                  *)
(* A MIDIMessage is [SequenceNumber, SSRC, Commands], Commands a sequence  *)
(* of [DeltaTime (milliseconds), Payload (octets)].  The timestamp package *)
(* is outside the repository: the header timestamp is any four octets, and *)
(* EncodeDeltaTime writes the duration, scaled by the tick rate, as a      *)
(* base-128 number of one to four octets, the high bit set on all but the  *)
(* last.                                                                   *)
(***************************************************************************)
\* a faulty variant: little-endian
Uint16OctetsLittle(v) == <<v % 256, v \div 256>>

\* binary.Write(b, binary.BigEndian, uint16 / uint32)
Uint16Octets(v) == <<v \div 256, v % 256>>

Uint32Octets(v) == <<v \div 16777216, (v \div 65536) % 256, (v \div 256) % 256, v % 256>>

\* timestamp.EncodeDeltaTime: the octets written for a duration of d
\* milliseconds at rate ticks per millisecond
EncodeDeltaTime(d, rate) ==
    LET v == d * rate
        g(k) == (v \div (128 ^ k)) % 128
    IN  IF v < 128 THEN <<g(0)>>
        ELSE IF v < 128 ^ 2 THEN <<128 + g(1), g(0)>>
        ELSE IF v < 128 ^ 3 THEN <<128 + g(2), 128 + g(1), g(0)>>
        ELSE <<128 + g(3), 128 + g(2), 128 + g(1), g(0)>>

\* MIDIPayload.encode: the payload as it is, nothing for an empty one
MIDIPayloadEncode(p) == p

\* the loop of MIDICommands.encode from command i: what it writes into b
RECURSIVE encodeBody(_, _, _)
encodeBody(commands, i, rate) ==
    IF i > Len(commands) THEN <<>>
    ELSE LET mc == commands[i]
             delta == IF (i = 1 /\ mc.DeltaTime > 0) \/ i > 1
                      THEN EncodeDeltaTime(mc.DeltaTime, rate) ELSE <<>>
         IN  delta \o MIDIPayloadEncode(mc.Payload) \o encodeBody(commands, i + 1, rate)

\* a faulty variant: the two-octet header from 15 octets on
UseBigHeaderFrom15(len) == len >= 15

\* b.Len() > 15
UseBigHeader(len) == len > 15

\* a faulty variant: the Z bit is never set
ZeroDeltaHeaderNever(commands) == emtpyHeader

\* the header after the loop: zeroDeltaBit when the first command has a delta
ZeroDeltaHeader(commands) ==
    IF commands[1].DeltaTime > 0 THEN zeroDeltaBit ELSE emtpyHeader

\* MIDICommands.encode: what it writes into w
MIDICommandsEncode(commands, rate) ==
    IF Len(commands) = 0 THEN <<emtpyHeader>>
    ELSE LET header == ZeroDeltaHeader(commands)
             b == encodeBody(commands, 1, rate)
         IN  IF Len(b) > 4095 THEN b
             ELSE IF UseBigHeader(Len(b))
             THEN <<header + bigHeaderBit + ((Len(b) \div 256) % (lenMask + 1)),
                    Len(b) % 256>> \o b
             ELSE <<header + (Len(b) % (lenMask + 1))>> \o b

\* Encode(m, start): ts is timestamp.Of(m.Commands.Timestamp, start).Uint32()
Encode(m, ts, rate) ==
    <<firstByte, secondByte>> \o Uint16Octets(m.SequenceNumber) \o ts
        \o Uint32Octets(m.SSRC) \o MIDICommandsEncode(m.Commands, rate)

(***************************************************************************)
(* Bounds and inputs of the session model                                  *)
(***************************************************************************)
\* datagrams the two sockets deliver in one run
MaxDatagrams == 3

\* control datagrams delivered during the outbound broadcasts of one run
MaxControl == 2

\* calls of SendMIDIPayload / SendMIDICommands in one run
MaxSends == 2

\* make([]byte, 1024)
BufferSize == 1024

Loops == {"ctl", "data"}

Callers == {"t1", "t2"}

Procs == Loops \cup Callers

\* sip command kinds as one octet of the control datagram
Invitation == 73

End == 66

Synchronization == 67

\* the 12-byte RTP header with payload-type octet pt, sequence number sn, SSRC ssrc
RTPHeader(pt, sn, ssrc) == <<firstByte, pt, 0, sn, 0, 0, 0, 0, 0, 0, 0, ssrc>>

\* control datagrams that change the registry
ControlDatagrams ==
    { <<255, 255, Invitation, 1, 1>>,
      <<255, 255, Invitation, 2, 1>>,
      <<255, 255, End, 1>> }

\* datagrams of every kind, well-formed and not
Datagrams ==
    { <<255, 255, Invitation, 1, 1>>,
      <<255, 255, Invitation, 1, 2>>,
      <<255, 255, End, 1>>,
      <<255, 255, Synchronization, 1>>,
      RTPHeader(payloadType, 5, 1) \o <<3, 144, 64, 127>>,
      RTPHeader(payloadType, 5, 1),
      RTPHeader(payloadType, 5, 1) \o <<2, 240, 1>>,
      RTPHeader(payloadType, 5, 1) \o <<5, 248>>,
      RTPHeader(payloadType, 5, 1) \o <<128>>,
      <<>> }

\* uint16(rand.Int()) as drawn at Start
InitialSequenceNumbers == {0, 65535}

\* what a caller hands to SendMIDIPayload (a payload) or SendMIDICommands (a list)
SendInputs ==
    { [via |-> "payload", cmds |-> <<[DeltaTime |-> 0, Payload |-> <<144, 64, 127>>]>>],
      [via |-> "commands", cmds |-> <<>>] }

(***************************************************************************)
(* sip.Decode: the control decoder, outside this core.  A control datagram *)
(* is taken to be FF FF, the command kind, the SSRC and, for an            *)
(* Invitation, the name, one octet each.                                   *)
(***************************************************************************)
SipDecode(buf) ==
    IF buf.n < 4 \/ At(buf, 2) \notin {Invitation, End, Synchronization}
    THEN [err |-> TRUE, Cmd |-> 0, SSRC |-> 0, Name |-> 0]
    ELSE [err |-> FALSE, Cmd |-> At(buf, 2), SSRC |-> At(buf, 3),
          Name |-> IF buf.n >= 5 THEN At(buf, 4) ELSE 0]

(***************************************************************************)
(* The registry operations of session.go.  Each returns the registry and   *)
(* the heap after the call, and conn, found as returned (conn 0 is nil).   *)
(***************************************************************************)
\* createConnection: the new MIDINetworkStream
createConnection(msg) == [RemoteSSRC |-> msg.SSRC, Name |-> msg.Name, State |-> "initial"]

\* the registry with key -> id added or replaced
Stored(conns, key, id) ==
    [k \in DOMAIN conns \cup {key} |-> IF k = key THEN id ELSE conns[k]]

\* the registry without key
Deleted(conns, key) == [k \in DOMAIN conns \ {key} |-> conns[k]]

\* a faulty variant: an Invitation always stores the stream it created
getConnectionStore(conns, heap, msg) ==
    IF msg.Cmd = Invitation
    THEN [connections |-> Stored(conns, msg.SSRC, Len(heap) + 1),
          streams |-> Append(heap, createConnection(msg)),
          conn |-> Len(heap) + 1, found |-> TRUE]
    ELSE IF msg.SSRC \notin DOMAIN conns
         THEN [connections |-> conns, streams |-> heap, conn |-> 0, found |-> FALSE]
         ELSE [connections |-> conns, streams |-> heap,
               conn |-> conns[msg.SSRC], found |-> TRUE]

getConnection(conns, heap, msg) ==
    IF msg.Cmd = Invitation
    THEN IF msg.SSRC \in DOMAIN conns
         THEN [connections |-> conns, streams |-> heap,
               conn |-> conns[msg.SSRC], found |-> TRUE]
         ELSE [connections |-> Stored(conns, msg.SSRC, Len(heap) + 1),
               streams |-> Append(heap, createConnection(msg)),
               conn |-> Len(heap) + 1, found |-> TRUE]
    ELSE IF msg.SSRC \notin DOMAIN conns
         THEN [connections |-> conns, streams |-> heap, conn |-> 0, found |-> FALSE]
         ELSE [connections |-> conns, streams |-> heap,
               conn |-> conns[msg.SSRC], found |-> TRUE]

\* a faulty variant: the data path creates the entry it does not find
loadMIDIConnectionCreates(conns, heap, msg) ==
    IF msg.SSRC \notin DOMAIN conns
    THEN [connections |-> Stored(conns, msg.SSRC, Len(heap) + 1),
          streams |-> Append(heap, createConnection(msg)),
          conn |-> Len(heap) + 1, found |-> TRUE]
    ELSE [connections |-> conns, streams |-> heap,
          conn |-> conns[msg.SSRC], found |-> TRUE]

loadMIDIConnection(conns, heap, msg) ==
    IF msg.SSRC \notin DOMAIN conns
    THEN [connections |-> conns, streams |-> heap, conn |-> 0, found |-> FALSE]
    ELSE [connections |-> conns, streams |-> heap,
          conn |-> conns[msg.SSRC], found |-> TRUE]

\* a faulty variant: the entry is logged as ended and stays
removeConnectionKeeps(conns, heap, conn) == conns

removeConnection(conns, heap, conn) == Deleted(conns, heap[conn].RemoteSSRC)

\* a faulty variant: the counter is wider than 16 bits
IncNoWrap(n) == n + 1

\* s.SequenceNumber++ on a uint16
IncSequenceNumber(n) == (n + 1) % 65536

\* a faulty variant: the callback stops the Range when a send fails
RangeStopOnFailure(ok) == ok

\* what the callback of connections.Range in SendMIDICommands returns
RangeContinue(ok) == TRUE

(***************************************************************************)
(* State after Start: both messageLoop goroutines are spawned and have not *)
(* yet bound their sockets; the registry is empty.                         *)
(***************************************************************************)
NoControl == [chan |-> "none", Cmd |-> 0, SSRC |-> 0, Name |-> 0,
              SequenceNumber |-> 0, Commands |-> <<>>]

NoConn == [conn |-> 0, found |-> FALSE, afterRemove |-> FALSE]

NoCall == [op |-> "none", n0 |-> 0, tmp |-> 0, m |-> NoMessage, cmds |-> <<>>,
           snap |-> <<>>, visited |-> {}, attempts |-> <<>>, dirty |-> FALSE]

\* Decode has not run
NoResult == DecodeResult(NoMessage, "none", FALSE, FALSE, "nil", 0, 0, 0)

\* no Encode call in this run
NoEncode == [m |-> NoMessage, ts |-> <<0, 0, 0, 0>>, rate |-> 1, encoded |-> FALSE]

InitSession(active, numbers) ==
    /\ session \in [SSRC : {9}, SequenceNumber : numbers, handler : {"nil"}]
    /\ connections = <<>>
    /\ streams = <<>>
    /\ pc = [p \in Procs |-> IF p \in Loops THEN "listen"
                             ELSE IF p \in active THEN "idle" ELSE "off"]
    /\ buffer = [l \in Loops |-> <<>>]
    /\ nread = [l \in Loops |-> 0]
    /\ lmsg = [l \in Loops |-> NoControl]
    /\ lconn = [l \in Loops |-> NoConn]
    /\ call = [t \in Callers |-> NoCall]
    /\ hist = [reads |-> 0, sends |-> 0, endBegun |-> FALSE, endReturned |-> FALSE,
               removed |-> {}, seq0 |-> session.SequenceNumber]

Init ==
    /\ InitSession({"t1"}, {0})
    /\ cin = Lit(<<>>)
    /\ cout = NoResult
    /\ emsg = NoEncode

InitSend ==
    /\ InitSession({"t1"}, InitialSequenceNumbers)
    /\ cin = Lit(<<>>)
    /\ cout = NoResult
    /\ emsg = NoEncode

\* a panic in any goroutine ends the process
Running == \A p \in Procs : pc[p] \notin {"panic_listen", "panic_decode"}

(***************************************************************************)
(* messageLoop                                                             *)
(***************************************************************************)
\* net.ListenPacket: the bind succeeds or fails; a failure panics
Listen(l) ==
    /\ Running
    /\ pc[l] = "listen"
    /\ \E ok \in BOOLEAN :
         pc' = [pc EXCEPT ![l] = IF ok THEN "read" ELSE "panic_listen"]
    /\ UNCHANGED <<session, connections, streams, buffer, nread, lmsg, lconn, call,
                   hist, cin, cout, emsg>>

\* the read buffer after ReadFrom copied datagram d over its first octets
Filled(old, d) ==
    IF Len(d) >= Len(old) THEN d ELSE d \o SubSeq(old, Len(d) + 1, Len(old))

\* buffer[:n]
Received(buf, n) == [a |-> buf, n |-> n, c |-> BufferSize]

\* binary.BigEndian.Uint16(buffer[0:2]) == 0xffff
IsControl(buf) == Uint16(At(Lit(buf), 0), At(Lit(buf), 1)) = 65535

\* ReadFrom, the classification and the decoding of one datagram
Read(l, arriving, limit) ==
    /\ Running
    /\ pc[l] = "read"
    /\ hist.reads < limit
    /\ \E d \in arriving :
         LET buf == Filled(buffer[l], d)
             n   == Len(d)
             in  == Received(buf, n)
             ctl == SipDecode(in)
             rtp == Decode(in)
         IN  /\ buffer' = [buffer EXCEPT ![l] = buf]
             /\ nread' = [nread EXCEPT ![l] = n]
             /\ lconn' = [lconn EXCEPT ![l] = NoConn]
             /\ IF IsControl(buf)
                THEN IF ctl.err
                     THEN /\ pc' = pc
                          /\ lmsg' = [lmsg EXCEPT ![l] = NoControl]
                     ELSE /\ pc' = [pc EXCEPT ![l] = "lookup"]
                          /\ lmsg' = [lmsg EXCEPT ![l] =
                                 [chan |-> "ctl", Cmd |-> ctl.Cmd, SSRC |-> ctl.SSRC,
                                  Name |-> ctl.Name, SequenceNumber |-> 0,
                                  Commands |-> <<>>]]
                ELSE IF rtp.panic
                     THEN /\ pc' = [pc EXCEPT ![l] = "panic_decode"]
                          /\ lmsg' = [lmsg EXCEPT ![l] = NoControl]
                     ELSE IF rtp.err # "nil"
                     THEN /\ pc' = pc
                          /\ lmsg' = [lmsg EXCEPT ![l] = NoControl]
                     ELSE /\ pc' = [pc EXCEPT ![l] = "lookup"]
                          /\ lmsg' = [lmsg EXCEPT ![l] =
                                 [chan |-> "rtp", Cmd |-> 0, SSRC |-> rtp.msg.SSRC,
                                  Name |-> 0,
                                  SequenceNumber |-> rtp.msg.SequenceNumber,
                                  Commands |-> rtp.msg.Commands]]
    /\ hist' = [hist EXCEPT !.reads = @ + 1]
    /\ UNCHANGED <<session, connections, streams, call, cin, cout, emsg>>

\* a registry change seen by every Range that is under way
Dirtied(conns) ==
    [t \in Callers |->
        IF pc[t] \in {"range", "end_range"} /\ conns # connections
        THEN [call[t] EXCEPT !.dirty = TRUE] ELSE call[t]]

\* s.getConnection(msg) on a control message, s.loadMIDIConnection(msg) on data
Lookup(l) ==
    /\ Running
    /\ pc[l] = "lookup"
    /\ LET r == IF lmsg[l].chan = "ctl"
                THEN getConnection(connections, streams, lmsg[l])
                ELSE loadMIDIConnection(connections, streams, lmsg[l])
           invite == lmsg[l].chan = "ctl" /\ lmsg[l].Cmd = Invitation
       IN  /\ connections' = r.connections
           /\ streams' = r.streams
           /\ lconn' = [lconn EXCEPT ![l] =
                  [conn |-> r.conn, found |-> r.found,
                   afterRemove |-> lmsg[l].SSRC \in hist.removed]]
           /\ pc' = [pc EXCEPT ![l] = IF r.found THEN "dispatch" ELSE "read"]
           /\ hist' = [hist EXCEPT !.removed =
                  IF invite THEN @ \ {lmsg[l].SSRC} ELSE @]
           /\ call' = Dirtied(r.connections)
    /\ UNCHANGED <<session, buffer, nread, lmsg, cin, cout, emsg>>

(***************************************************************************)
(* MIDINetworkStream.handleControl / handleRTP, outside this core: an End  *)
(* control message ends the stream and removes it from the registry        *)
(* (removeConnection); every other message leaves the registry alone.      *)
(***************************************************************************)
Dispatch(l) ==
    /\ Running
    /\ pc[l] = "dispatch"
    /\ LET c == lconn[l].conn
           ends == lmsg[l].chan = "ctl" /\ lmsg[l].Cmd = End
           conns == IF ends THEN removeConnection(connections, streams, c)
                    ELSE connections
       IN  /\ connections' = conns
           /\ streams' = IF ends THEN [streams EXCEPT ![c].State = "ended"] ELSE streams
           /\ hist' = [hist EXCEPT !.removed =
                  IF ends THEN @ \cup {streams[c].RemoteSSRC} ELSE @]
           /\ call' = Dirtied(conns)
    /\ pc' = [pc EXCEPT ![l] = "read"]
    /\ UNCHANGED <<session, buffer, nread, lmsg, lconn, cin, cout, emsg>>

(***************************************************************************)
(* The caller's thread: Handle, SendMIDIPayload / SendMIDICommands, End    *)
(***************************************************************************)
Handlers == {"h1"}

\* s.handler = handler
Handle(t) ==
    /\ Running
    /\ pc[t] = "idle"
    /\ \E h \in Handlers :
         /\ session.handler # h
         /\ session' = [session EXCEPT !.handler = h]
    /\ UNCHANGED <<connections, streams, pc, buffer, nread, lmsg, lconn, call, hist,
                   cin, cout, emsg>>

\* entry of SendMIDICommands, directly or through SendMIDIPayload
SendMIDICommands(t) ==
    /\ Running
    /\ pc[t] = "idle"
    /\ hist.sends < MaxSends
    /\ \E in \in SendInputs :
         call' = [call EXCEPT ![t] =
                     [NoCall EXCEPT !.op = in.via, !.cmds = in.cmds,
                                    !.n0 = session.SequenceNumber]]
    /\ pc' = [pc EXCEPT ![t] = "inc_load"]
    /\ hist' = [hist EXCEPT !.sends = @ + 1]
    /\ UNCHANGED <<session, connections, streams, buffer, nread, lmsg, lconn, cin, cout, emsg>>

\* s.SequenceNumber++ : the read
IncLoad(t) ==
    /\ Running
    /\ pc[t] = "inc_load"
    /\ call' = [call EXCEPT ![t].tmp = session.SequenceNumber]
    /\ pc' = [pc EXCEPT ![t] = "inc_store"]
    /\ UNCHANGED <<session, connections, streams, buffer, nread, lmsg, lconn, hist,
                   cin, cout, emsg>>

\* s.SequenceNumber++ : the write
IncStore(t) ==
    /\ Running
    /\ pc[t] = "inc_store"
    /\ session' = [session EXCEPT !.SequenceNumber = IncSequenceNumber(call[t].tmp)]
    /\ pc' = [pc EXCEPT ![t] = "build"]
    /\ UNCHANGED <<connections, streams, buffer, nread, lmsg, lconn, call, hist,
                   cin, cout, emsg>>

\* m := rtp.MIDIMessage{...} and the start of s.connections.Range
Build(t) ==
    /\ Running
    /\ pc[t] = "build"
    /\ call' = [call EXCEPT ![t].m = [SequenceNumber |-> session.SequenceNumber,
                                      SSRC |-> session.SSRC,
                                      Commands |-> call[t].cmds],
                            ![t].snap = connections]
    /\ pc' = [pc EXCEPT ![t] = "range"]
    /\ UNCHANGED <<session, connections, streams, buffer, nread, lmsg, lconn, hist,
                   cin, cout, emsg>>

\* keys a Range under way may still visit: those of the registry when it started
\* and those of the registry now
RangeKeys(t) == (DOMAIN call[t].snap \cup DOMAIN connections) \ call[t].visited

\* the values Range may pass for key k
RangeValues(t, k) ==
    (IF k \in DOMAIN call[t].snap THEN {call[t].snap[k]} ELSE {})
    \cup (IF k \in DOMAIN connections THEN {connections[k]} ELSE {})

\* Range must have visited every key that was there throughout
RangeComplete(t) ==
    (DOMAIN call[t].snap \cap DOMAIN connections) \subseteq call[t].visited

\* one callback of Range: v.(*MIDINetworkStream).SendMIDIMessage(m), which
\* transmits or fails
SendStep(t) ==
    /\ Running
    /\ pc[t] = "range"
    /\ \E k \in RangeKeys(t) : \E v \in RangeValues(t, k) : \E ok \in BOOLEAN :
         /\ call' = [call EXCEPT
                ![t].visited = @ \cup {k},
                ![t].attempts = Append(@, [conn |-> v, ok |-> ok,
                                           seq |-> call[t].m.SequenceNumber])]
         /\ pc' = [pc EXCEPT ![t] = IF RangeContinue(ok) THEN "range" ELSE "idle"]
    /\ UNCHANGED <<session, connections, streams, buffer, nread, lmsg, lconn, hist,
                   cin, cout, emsg>>

\* Range returns, and SendMIDICommands with it; the locals of the finished call
\* stay until the next call
SendReturn(t) ==
    /\ Running
    /\ pc[t] = "range"
    /\ RangeComplete(t)
    /\ pc' = [pc EXCEPT ![t] = "idle"]
    /\ UNCHANGED <<session, connections, streams, buffer, nread, lmsg, lconn, call,
                   hist, cin, cout, emsg>>

\* entry of MIDINetworkSession.End and the start of its Range
SessionEnd(t) ==
    /\ Running
    /\ pc[t] = "idle"
    /\ ~hist.endBegun
    /\ call' = [call EXCEPT ![t] = [NoCall EXCEPT !.op = "end", !.snap = connections]]
    /\ pc' = [pc EXCEPT ![t] = "end_range"]
    /\ hist' = [hist EXCEPT !.endBegun = TRUE]
    /\ UNCHANGED <<session, connections, streams, buffer, nread, lmsg, lconn, cin, cout, emsg>>

\* one callback of Range: v.(*MIDINetworkStream).End(), the stream's
\* end-of-connection action
EndStep(t) ==
    /\ Running
    /\ pc[t] = "end_range"
    /\ \E k \in RangeKeys(t) : \E v \in RangeValues(t, k) :
         /\ call' = [call EXCEPT ![t].visited = @ \cup {k}]
         /\ streams' = [streams EXCEPT ![v].State = "ended"]
    /\ UNCHANGED <<session, connections, pc, buffer, nread, lmsg, lconn, hist,
                   cin, cout, emsg>>

\* Range returns, and End with it
EndReturn(t) ==
    /\ Running
    /\ pc[t] = "end_range"
    /\ RangeComplete(t)
    /\ pc' = [pc EXCEPT ![t] = "idle"]
    /\ call' = [call EXCEPT ![t] = NoCall]
    /\ hist' = [hist EXCEPT !.endReturned = TRUE]
    /\ UNCHANGED <<session, connections, streams, buffer, nread, lmsg, lconn, cin, cout, emsg>>

(***************************************************************************)
(* The two receive loops under inbound traffic of every kind               *)
(***************************************************************************)
LoopStep == \E l \in Loops : Listen(l) \/ Lookup(l) \/ Dispatch(l)

Arrival == \E l \in Loops : Read(l, Datagrams, MaxDatagrams)

Next == LoopStep \/ Arrival

Spec == Init /\ [][Next]_vars

(***************************************************************************)
(* The same with Handle and End called on the caller's thread              *)
(***************************************************************************)
Teardown == \E t \in Callers : SessionEnd(t) \/ EndStep(t) \/ EndReturn(t)

Registration == \E t \in Callers : Handle(t)

NextEnd == LoopStep \/ Arrival \/ Teardown \/ Registration

SpecEnd == Init /\ [][NextEnd]_vars

(***************************************************************************)
(* The outbound broadcast while invitations and ends arrive                *)
(***************************************************************************)
ControlArrival == \E l \in Loops : Read(l, ControlDatagrams, MaxControl)

Broadcast ==
    \E t \in Callers :
        \/ SendMIDICommands(t) \/ IncLoad(t) \/ IncStore(t) \/ Build(t)
        \/ SendStep(t) \/ SendReturn(t)

NextSend == LoopStep \/ ControlArrival \/ Broadcast

SpecSend == InitSend /\ [][NextSend]_vars

(***************************************************************************)
(* Two threads calling SendMIDICommands on one Session                     *)
(***************************************************************************)
InitRace ==
    /\ InitSession(Callers, InitialSequenceNumbers)
    /\ cin = Lit(<<>>)
    /\ cout = NoResult
    /\ emsg = NoEncode

\* datagrams delivered while the two threads send
MaxRaceReads == 1

\* one peer invites itself, so that the broadcasts have a stream to reach
RaceDatagrams == {<<255, 255, Invitation, 1, 1>>}

RaceArrival == \E l \in Loops : Read(l, RaceDatagrams, MaxRaceReads)

NextRace == LoopStep \/ RaceArrival \/ Broadcast

SpecRace == InitRace /\ [][NextRace]_vars

(***************************************************************************)
(* The codec alone: Decode applied to one buffer                           *)
(***************************************************************************)
\* octets of the MIDI list body in a codec input
MaxBody == 4

\* second octets of the RTP header: payload type 0x61 with and without the
\* marker bit, and two other payload types
SecondBytes == {97, 225, 96, 226}

\* list headers: LEN 0, 3, 4, 15; Z with LEN 3; J with LEN 5; B with LEN 3; B alone
ListHeaders == {<<0>>, <<3>>, <<4>>, <<15>>, <<35>>, <<69>>, <<128, 3>>, <<128>>}

\* data octets 0x00 and 0x40, 0x81 (a delta-time continuation or Note Off),
\* 0x90 Note On, 0xF0 SysEx, 0xF7 End of SysEx
BodyOctets == {0, 64, 129, 144, 240, 247}

\* longer lists, header octet first: running status (Note On on channels 0
\* and 3, Control Change, Program Change, three commands in a row);
\* delta-times of four octets; a journal after a list that ends inside a
\* command; SysEx segments without 0xF7 in front of a Note On
ExtraLists ==
    {<<6, 144, 64, 127, 0, 60, 0>>, <<6, 147, 64, 127, 64, 60, 0>>,
     <<6, 176, 7, 100, 0, 7, 0>>, <<4, 192, 5, 0, 7>>,
     <<9, 144, 64, 127, 0, 60, 0, 0, 62, 0>>,
     <<37, 255, 255, 255, 255, 247>>, <<37, 129, 128, 128, 0, 247>>,
     <<65, 144, 64, 127>>, <<66, 240, 1, 2, 247>>,
     <<4, 240, 1, 2, 144>>, <<6, 240, 1, 2, 144, 64, 127>>,
     <<39, 0, 240, 1, 2, 144, 64, 127>>,
     <<36, 0, 240, 129, 0, 247>>,
     <<8, 248, 0, 240, 1, 2, 144, 64, 127>>}

RECURSIVE SeqsUpTo(_, _)
SeqsUpTo(S, n) ==
    IF n = 0 THEN {<<>>}
    ELSE LET shorter == SeqsUpTo(S, n - 1)
         IN  shorter \cup {Append(q, x) : q \in {r \in shorter : Len(r) = n - 1}, x \in S}

\* whole packets (lists of up to n octets under the accepted second byte,
\* of up to 2 octets under every second byte), and every proper prefix of a
\* header
CodecBuffers(n) ==
    {RTPHeader(payloadType, 5, 1) \o h \o body :
        h \in ListHeaders, body \in SeqsUpTo(BodyOctets, n)}
    \cup {RTPHeader(b, 5, 1) \o h \o body :
        b \in SecondBytes, h \in ListHeaders, body \in SeqsUpTo(BodyOctets, 2)}
    \cup {RTPHeader(payloadType, 5, 1) \o x : x \in ExtraLists}
    \cup {SubSeq(RTPHeader(b, 5, 1), 1, k) : b \in SecondBytes, k \in 0..12}

\* the slices: a buffer of its own, and a 13-byte read into the receive buffer
CodecInputs(n) ==
    {Lit(q) : q \in CodecBuffers(n)}
    \cup {Received(q, Len(q)) : q \in {r \in CodecBuffers(n) : Len(r) = 13}}

InitCodec ==
    /\ InitSession({}, {0})
    /\ cin \in CodecInputs(MaxBody)
    /\ cout = NoResult
    /\ emsg = NoEncode

DoDecode ==
    /\ cout = NoResult
    /\ cout' = Decode(cin)
    /\ UNCHANGED <<cin, session, connections, streams, pc, buffer, nread, lmsg, lconn,
                   call, hist, emsg>>

NextCodec == DoDecode

SpecCodec == InitCodec /\ [][NextCodec]_vars

(***************************************************************************)
(* The codec's round trip: Encode of a MIDIMessage, then Decode of the     *)
(* bytes it produced                                                       *)
(***************************************************************************)
\* commands in one MIDIMessage
MaxCommands == 2

\* Note On, Program Change, Timing Clock, a terminated SysEx, the undefined
\* status 0xF4; a Note On short of a data byte and a SysEx without its 0xF7
EncodePayloads ==
    {<<144, 64, 127>>, <<192, 5>>, <<248>>, <<240, 1, 2, 247>>, <<244>>,
     <<144, 64>>, <<240, 1, 2>>}

\* durations in milliseconds: none, two octets, four octets
EncodeDeltas == {0, 200, 3000000}

\* a terminated SysEx of size octets in all
SysEx(size) == <<240>> \o [i \in 1..(size - 2) |-> i % 128] \o <<247>>

\* list bodies on both sides of the one-octet, two-octet and 4095 limits
SysExSizes == {15, 16, 255, 256, 4095, 4096}

EncodeCommands == [DeltaTime : EncodeDeltas, Payload : EncodePayloads]

EncodeHeaders ==
    {[SequenceNumber |-> 258, SSRC |-> 16909060, ts |-> <<0, 0, 0, 0>>],
     [SequenceNumber |-> 65535, SSRC |-> 2147483647, ts |-> <<255, 255, 255, 255>>]}

\* ticks per millisecond the timestamp package may use
TickRates == {1, 10}

EncodeLists(n) ==
    SeqsUpTo(EncodeCommands, n)
    \cup {<<[DeltaTime |-> d, Payload |-> SysEx(size)]>> :
            d \in {0, 200}, size \in SysExSizes}

\* the capacity of the slice bytes.Buffer hands back: its length, or more
BufferCaps(n) == {n, IF n < 64 THEN 64 ELSE 2 * n}

InitRound ==
    /\ InitSession({}, {0})
    /\ cin = Lit(<<>>)
    /\ cout = NoResult
    /\ \E h \in EncodeHeaders, cmds \in EncodeLists(MaxCommands), rate \in TickRates :
          emsg = [m |-> [SequenceNumber |-> h.SequenceNumber, SSRC |-> h.SSRC,
                         Commands |-> cmds],
                  ts |-> h.ts, rate |-> rate, encoded |-> FALSE]

DoEncode ==
    /\ ~emsg.encoded
    /\ LET out == Encode(emsg.m, emsg.ts, emsg.rate)
       IN  \E c \in BufferCaps(Len(out)) : cin' = [a |-> out, n |-> Len(out), c |-> c]
    /\ emsg' = [emsg EXCEPT !.encoded = TRUE]
    /\ UNCHANGED <<cout, session, connections, streams, pc, buffer, nread, lmsg, lconn,
                   call, hist>>

DecodeEncoded == emsg.encoded /\ DoDecode

NextRound == DoEncode \/ DecodeEncoded

SpecRound == InitRound /\ [][NextRound]_vars

(***************************************************************************)
(* Properties                                                              *)
(***************************************************************************)
IsInvitation(m) == m.chan = "ctl" /\ m.Cmd = Invitation

\* loop l completes its getConnection / loadMIDIConnection in this step
Looked(l) == pc[l] = "lookup" /\ pc'[l] # "lookup"

\* the registry keys whose stream belongs to SSRC s
KeysOf(conns, heap, s) == {k \in DOMAIN conns : heap[conns[k]].RemoteSSRC = s}

\* C1: whenever a loop completes getConnection for an Invitation, the registry
\* then holds exactly one Connection for that SSRC, the call returns that
\* Connection, and a Connection that was already registered for the SSRC is
\* the one still registered, unchanged, whatever name the Invitation carries.
C1_InvitationIdempotent ==
    [][\A l \in Loops :
          (Looked(l) /\ IsInvitation(lmsg[l])) =>
             LET s == lmsg[l].SSRC
             IN  /\ s \in DOMAIN connections'
                 /\ KeysOf(connections', streams', s) = {s}
                 /\ lconn'[l].found
                 /\ lconn'[l].conn = connections'[s]
                 /\ s \in DOMAIN connections =>
                       /\ connections'[s] = connections[s]
                       /\ streams'[connections'[s]] = streams[connections[s]]]_vars

\* C1 witness: both loops have an Invitation for the same SSRC in hand, with
\* different names, and both got the same Connection.
C1_Witness ==
    /\ pc["ctl"] = "dispatch" /\ pc["data"] = "dispatch"
    /\ IsInvitation(lmsg["ctl"]) /\ IsInvitation(lmsg["data"])
    /\ lmsg["ctl"].SSRC = lmsg["data"].SSRC
    /\ lmsg["ctl"].Name # lmsg["data"].Name
    /\ lconn["ctl"].conn = lconn["data"].conn
    /\ lconn["ctl"].conn = connections[lmsg["ctl"].SSRC]

\* C2: a load (loadMIDIConnection, or getConnection for a message that is no
\* Invitation) for an SSRC that removeConnection has removed, with no
\* Invitation for it since, reports not-found and returns no Connection.
C2_LoadAfterRemove ==
    [][\A l \in Loops :
          (Looked(l) /\ ~IsInvitation(lmsg[l]) /\ lmsg[l].SSRC \in hist.removed) =>
             /\ lconn'[l].conn = 0
             /\ ~lconn'[l].found
             /\ pc'[l] = "read"]_vars

\* C2 witness: a data datagram was looked up after the removal of its SSRC
\* and was not found.
C2_Witness ==
    \E l \in Loops :
        /\ pc[l] = "read"
        /\ lmsg[l].chan = "rtp"
        /\ lmsg[l].SSRC \in hist.removed
        /\ lconn[l].afterRemove
        /\ ~lconn[l].found

\* C3: no datagram makes messageLoop fault: after every datagram the loop is
\* back at its read step or on its way there.
C3_NoDatagramStopsLoop == \A l \in Loops : pc[l] # "panic_decode"

\* C4: every call of SendMIDICommands changes SequenceNumber from n to
\* (n + 1) mod 2^16 exactly once, and the Message built and handed to every
\* Connection in that call carries the new number.
C4_SequenceNumberPerCall ==
    /\ (\A t \in Callers : pc[t] \in {"idle", "off"}) =>
           session.SequenceNumber = (hist.seq0 + hist.sends) % 65536
    /\ \A t \in Callers :
           /\ pc[t] \in {"build", "range"} =>
                 session.SequenceNumber = (call[t].n0 + 1) % 65536
           /\ (pc[t] = "range" \/ (pc[t] = "idle" /\ call[t].op # "none")) =>
                 /\ call[t].m.SequenceNumber = (call[t].n0 + 1) % 65536
                 /\ \A i \in 1..Len(call[t].attempts) :
                        call[t].attempts[i].seq = call[t].m.SequenceNumber

\* C4 witness: a finished call that wrapped the counter from 65535 to 0 and
\* handed the Message to two Connections.
C4_Witness ==
    \E t \in Callers :
        /\ pc[t] = "idle"
        /\ call[t].n0 = 65535
        /\ session.SequenceNumber = 0
        /\ Len(call[t].attempts) = 2

\* C5: a finished SendMIDICommands call during which the registry did not
\* change has made exactly one send attempt for every Connection registered
\* when it started, failed sends included.
C5_OneAttemptPerConnection ==
    \A t \in Callers :
        (pc[t] = "idle" /\ call[t].op \in {"payload", "commands"} /\ ~call[t].dirty) =>
            /\ Len(call[t].attempts) = Cardinality(DOMAIN call[t].snap)
            /\ \A k \in DOMAIN call[t].snap :
                   Cardinality({i \in 1..Len(call[t].attempts) :
                                   call[t].attempts[i].conn = call[t].snap[k]}) = 1

\* C5 witness: a finished call over two Connections whose first send failed
\* and whose second was still attempted.
C5_Witness ==
    \E t \in Callers :
        /\ pc[t] = "idle"
        /\ ~call[t].dirty
        /\ Len(call[t].attempts) = 2
        /\ ~call[t].attempts[1].ok
        /\ call[t].attempts[1].conn # call[t].attempts[2].conn

\* C6: once Session.End has begun, no entry is added to the registry.
C6_NoConnectionAfterEnd ==
    [][hist.endBegun => DOMAIN connections' \subseteq DOMAIN connections]_vars

\* C8: a data datagram or a control message other than an Invitation whose
\* SSRC is not registered leaves the registry, the streams and the Session
\* fields unchanged and is dispatched to no Connection; and only the
\* getConnection of an Invitation adds a registry entry.
C8_UnknownSSRCNoEffect ==
    [][/\ \A l \in Loops :
             (Looked(l) /\ ~IsInvitation(lmsg[l]) /\ lmsg[l].SSRC \notin DOMAIN connections) =>
                /\ connections' = connections
                /\ streams' = streams
                /\ session' = session
                /\ lconn'[l].conn = 0 /\ ~lconn'[l].found
                /\ pc'[l] = "read"
       /\ ~(DOMAIN connections' \subseteq DOMAIN connections) =>
             \E l \in Loops : Looked(l) /\ IsInvitation(lmsg[l])]_vars

\* C8 witness: a data datagram for an SSRC the registry does not hold was
\* looked up, not found, and the loop is back at its read step.
C8_Witness ==
    \E l \in Loops :
        /\ pc[l] = "read"
        /\ lmsg[l].chan = "rtp"
        /\ lmsg[l].SSRC \notin DOMAIN connections
        /\ ~lconn[l].afterRemove
        /\ ~lconn[l].found

\* the payload-type field of the buffer handed to Decode
PayloadTypeField(buf) == At(buf, 1) % 128

\* C9: Decode fails with the too-short error on every buffer of fewer than 12
\* bytes and with the payload-type error on every buffer of at least 12 bytes
\* whose payload-type field is not 0x61; either way it returns no Commands
\* and does not parse the MIDI list.
C9_HeaderErrors ==
    cout # NoResult =>
        /\ cin.n < 12 =>
              /\ cout.err = "too_small"
              /\ cout.msg.Commands = <<>> /\ ~cout.parsed /\ ~cout.panic
        /\ (cin.n >= 12 /\ PayloadTypeField(cin) # 97) =>
              /\ cout.err = "pt_mismatch"
              /\ cout.msg.Commands = <<>> /\ ~cout.parsed /\ ~cout.panic

\* C9 witness: a packet with a list after its header was refused for its
\* payload type.
C9_Witness == cout.err = "pt_mismatch" /\ cin.n > 13

\* the same buffer with two more octets, enough to complete any command of
\* fixed length
Padded(buf) == [a |-> buf.a, n |-> buf.n + 2,
                c |-> IF buf.c < buf.n + 2 THEN buf.n + 2 ELSE buf.c]

\* the commands of a list that start inside the buffer and end beyond it
Crossing(cmds, n) == {k \in 1..Len(cmds) : cmds[k].at < n /\ cmds[k].to > n}

LoopStopped(l) == ~Running \/ pc[l] \notin {"listen", "read", "lookup", "dispatch"}

FairSpec ==
    /\ SpecEnd
    /\ \A l \in Loops : WF_vars(Listen(l) \/ Lookup(l) \/ Dispatch(l))
    /\ \A t \in Callers : WF_vars(EndStep(t) \/ EndReturn(t))

\* C7: after End has returned, both messageLoop workers eventually stop.
C7_LoopsStopAfterEnd == hist.endReturned ~> (\A l \in Loops : LoopStopped(l))

(***************************************************************************)
(* The round trip                                                          *)
(***************************************************************************)
\* Decode has returned (or panicked) on the bytes Encode produced
RoundDone == emsg.encoded /\ cout # NoResult

\* the length of the list body Encode builds
BodyLen == Len(encodeBody(emsg.m.Commands, 1, emsg.rate))

\* Decode succeeded and gave back the message's numbers and payloads
Reproduced ==
    /\ ~cout.panic /\ cout.err = "nil"
    /\ cout.msg.SequenceNumber = emsg.m.SequenceNumber
    /\ cout.msg.SSRC = emsg.m.SSRC
    /\ Len(cout.msg.Commands) = Len(emsg.m.Commands)
    /\ \A k \in 1..Len(emsg.m.Commands) :
          cout.msg.Commands[k].Payload = emsg.m.Commands[k].Payload

\* a payload that is one whole MIDI command: a status octet followed by the
\* data octets of that status, or a SysEx closed by 0xF7
Complete(p) ==
    /\ Len(p) >= 1 /\ p[1] >= 128
    /\ IF p[1] = 240
       THEN /\ Len(p) >= 2 /\ p[Len(p)] = 247
            /\ \A i \in 2..(Len(p) - 1) : p[i] < 128
       ELSE Len(p) = 1 + (IF GetDataLength(p[1]) > 0 THEN GetDataLength(p[1]) ELSE 0)

\* C11 as stated: for any message with a non-empty command list whose
\* encoded body is at most 4095 bytes, Decode(Encode(m)) succeeds with the
\* same sequence number, SSRC, number of Commands and payload bytes.
C11_RoundTrip ==
    (RoundDone /\ Len(emsg.m.Commands) > 0 /\ BodyLen <= 4095) => Reproduced

\* C11 as amended: the same, for the messages whose every payload is one
\* whole MIDI command (a status octet with exactly the data octets of that
\* status, or a SysEx closed by 0xF7).
C11_RoundTripComplete ==
    (/\ RoundDone /\ Len(emsg.m.Commands) > 0 /\ BodyLen <= 4095
     /\ \A k \in 1..Len(emsg.m.Commands) : Complete(emsg.m.Commands[k].Payload))
        => Reproduced

\* C11 witness: two whole commands, the first with a delta-time (Z set), one
\* of them a SysEx, came back from the round trip.
C11_Witness ==
    /\ RoundDone /\ Reproduced
    /\ Len(emsg.m.Commands) = 2
    /\ emsg.m.Commands[1].DeltaTime > 0
    /\ emsg.m.Commands[2].Payload = <<240, 1, 2, 247>>

\* the list-header octets of the packet Encode produced
ListHeader0 == At(cin, 12)

ListHeader1 == At(cin, 13)

\* C12: for a body of 1..15 octets Encode writes one header octet with B
\* clear and the low 4 bits equal to the length; for 16..4095 octets two
\* header octets with B set and the low 12 bits equal to the length; the
\* body follows the header, and Decode reads that length and starts the list
\* at offset 13 or 14.
C12_HeaderWidth ==
    (emsg.encoded /\ Len(emsg.m.Commands) > 0) =>
        /\ (BodyLen >= 1 /\ BodyLen <= 15) =>
              /\ ~HasBit(ListHeader0, bigHeaderBit)
              /\ ListHeader0 % 16 = BodyLen
              /\ cin.n = 13 + BodyLen
              /\ cout # NoResult => (cout.Len = BodyLen /\ cout.listStart = 13)
        /\ (BodyLen >= 16 /\ BodyLen <= 4095) =>
              /\ HasBit(ListHeader0, bigHeaderBit)
              /\ Uint16(ListHeader0, ListHeader1) % 4096 = BodyLen
              /\ cin.n = 14 + BodyLen
              /\ cout # NoResult => (cout.Len = BodyLen /\ cout.listStart = 14)

\* C12 witness: a body of exactly 16 octets went out under the two-octet
\* header and was decoded from offset 14.
C12_Witness ==
    /\ RoundDone /\ BodyLen = 16
    /\ cout.listStart = 14 /\ cout.Len = 16

\* C16: Encode of a message with no commands gives 13 bytes, the header and
\* a single 0x00 list-header octet, and Decode of them succeeds with zero
\* Commands and the same sequence number and SSRC.
C16_EmptyList ==
    (emsg.encoded /\ Len(emsg.m.Commands) = 0) =>
        /\ cin.n = 13
        /\ Octets(cin, 0, 2) = <<firstByte, secondByte>>
        /\ Uint16(At(cin, 2), At(cin, 3)) = emsg.m.SequenceNumber
        /\ Octets(cin, 4, 8) = emsg.ts
        /\ Uint32(At(cin, 8), At(cin, 9), At(cin, 10), At(cin, 11)) = emsg.m.SSRC
        /\ At(cin, 12) = 0
        /\ cout # NoResult =>
              /\ ~cout.panic /\ cout.err = "nil" /\ cout.perr = "nil"
              /\ cout.msg.Commands = <<>>
              /\ cout.msg.SequenceNumber = emsg.m.SequenceNumber
              /\ cout.msg.SSRC = emsg.m.SSRC

\* C16 witness: the empty message of sequence number 65535 came back.
C16_Witness ==
    /\ RoundDone /\ Len(emsg.m.Commands) = 0
    /\ cout.msg.SequenceNumber = 65535 /\ cout.parsed

\* C20: in every packet Encode produces, the marker bit (bit 7 of byte 1) is
\* 1 when the list has a non-zero LEN and 0 when LEN is zero.
C20_MarkerBit ==
    emsg.encoded =>
        (HasBit(At(cin, 1), markerBit) <=>
            (Len(emsg.m.Commands) > 0 /\ BodyLen > 0))

(***************************************************************************)
(* The list parser on the wire forms of the format                         *)
(***************************************************************************)
\* the packet has the accepted payload type and a one-octet list header
\* with B, J, Z and P clear
PlainList(buf) ==
    /\ buf.n >= 14
    /\ PayloadTypeField(buf) = payloadType
    /\ At(buf, 12) < 16

\* data octets of a channel-voice status: one for Program Change and
\* Channel Pressure, two for the others
VoiceData(s) == IF s >= 192 /\ s <= 223 THEN 1 ELSE 2

\* the list is one channel-voice command with its status octet, a
\* delta-time of one octet, and the data octets of a second command
RunningPair(buf) ==
    LET s == At(buf, 13)
        n == VoiceData(s)
    IN  /\ PlainList(buf)
        /\ s >= 128 /\ s <= 239
        /\ At(buf, 12) = 2 * n + 2
        /\ buf.n = 13 + 2 * n + 2
        /\ \A i \in 14..(13 + 2 * n + 1) : At(buf, i) < 128

\* C13: two consecutive commands of one channel-voice status, the second
\* without its status octet, decode to two Commands, each with the status
\* octet followed by its own data octets.
C13_RunningStatus ==
    (cout # NoResult /\ RunningPair(cin)) =>
        LET s == At(cin, 13)
            n == VoiceData(s)
        IN  /\ ~cout.panic /\ cout.err = "nil" /\ cout.perr = "nil"
            /\ Len(cout.msg.Commands) = 2
            /\ cout.msg.Commands[1].Payload = <<s>> \o Octets(cin, 14, 14 + n)
            /\ cout.msg.Commands[2].Payload = <<s>> \o Octets(cin, 15 + n, 15 + 2 * n)

\* C13 witness: two Note On of channel 3, the second under running status.
C13_Witness ==
    /\ cout # NoResult /\ RunningPair(cin)
    /\ At(cin, 13) = 147
    /\ cout.msg.Commands[2].Payload = <<147, 60, 0>>

\* the packet has the accepted payload type and a one-octet list header
\* with B, J and P clear; with Z set the first delta-time is one octet
FirstCommandList(buf) ==
    /\ buf.n >= 14
    /\ PayloadTypeField(buf) = payloadType
    /\ At(buf, 12) < 16 \/ (At(buf, 12) >= 32 /\ At(buf, 12) < 48 /\ At(buf, 13) < 128)

ZSet(buf) == At(buf, 12) >= 32

\* where the first command of such a list starts, and where the list ends
FirstAt(buf) == IF ZSet(buf) THEN 14 ELSE 13

ListEnd(buf) == 13 + (At(buf, 12) % 16)

\* the count of consecutive octets below 0x80 from offset from, inside the
\* slice
DataRun(buf, from) ==
    LET stops == {d \in 0..(buf.n - from) : from + d >= buf.n \/ At(buf, from + d) >= 128}
    IN  IF from >= buf.n THEN 0 ELSE CHOOSE d \in stops : \A e \in stops : d <= e

\* the first command of the list is a SysEx segment; the octet after its
\* data octets
SegmentFirst(buf) ==
    /\ FirstCommandList(buf)
    /\ FirstAt(buf) < ListEnd(buf) /\ FirstAt(buf) < buf.n
    /\ At(buf, FirstAt(buf)) = 240

SegmentStop(buf) == FirstAt(buf) + 1 + DataRun(buf, FirstAt(buf) + 1)

Terminated(buf) ==
    /\ SegmentFirst(buf)
    /\ SegmentStop(buf) < buf.n /\ At(buf, SegmentStop(buf)) = 247

Unterminated(buf) ==
    /\ SegmentFirst(buf)
    /\ SegmentStop(buf) < buf.n /\ SegmentStop(buf) < ListEnd(buf)
    /\ At(buf, SegmentStop(buf)) # 247

\* the packet without the octets of its first segment, LEN lowered by as
\* many
WithoutSegment(buf) ==
    LET q == FirstAt(buf)
        cut == SegmentStop(buf) - q
        a == [i \in 1..(Len(buf.a) - cut) |->
                 IF i = 13 THEN buf.a[13] - cut
                 ELSE IF i <= q THEN buf.a[i] ELSE buf.a[i + cut]]
    IN  [a |-> a, n |-> buf.n - cut, c |-> buf.c]

\* what a caller sees of a Decode result
Seen(r) ==
    [panic |-> r.panic, err |-> r.err, perr |-> r.perr,
     cmds |-> [k \in 1..Len(r.msg.Commands) |->
                  [DeltaTime |-> r.msg.Commands[k].DeltaTime,
                   Payload |-> r.msg.Commands[k].Payload]]]

\* a terminated first segment is one Command of all its octets
SegmentIsOneCommand ==
    (cout # NoResult /\ Terminated(cin) /\ ~cout.panic) =>
        /\ Len(cout.msg.Commands) >= 1
        /\ cout.msg.Commands[1].Payload = Octets(cin, FirstAt(cin), SegmentStop(cin) + 1)
        /\ cout.msg.Commands[1].to = SegmentStop(cin) + 1
        /\ Len(cout.msg.Commands) >= 2 =>
              cout.msg.Commands[2].from = SegmentStop(cin) + 1

\* an unterminated first segment gives no Command, and the list decodes as
\* it does without the segment
SegmentSkipped(buf, r) ==
    /\ \A k \in 1..Len(r.msg.Commands) : r.msg.Commands[k].at >= SegmentStop(buf)
    /\ Seen(r) = Seen(Decode(WithoutSegment(buf)))

RECURSIVE VarValue(_, _, _)
VarValue(buf, from, n) ==
    IF n = 0 THEN 0
    ELSE VarValue(buf, from, n - 1) * 128 + (At(buf, from + n - 1) % 128)

\* C15: a delta-time is read only for a command that is not the first
\* emitted one, or for the first when Z is set; it is the big-endian
\* base-128 number of the low 7 bits of its octets, read while the high bit
\* is set and never beyond 4 octets; the value is in 0 .. 2^28 - 1.
C15_DeltaTime ==
    (cout # NoResult /\ cout.parsed) =>
        \A k \in 1..Len(cout.msg.Commands) :
            LET c == cout.msg.Commands[k]
                n == c.at - c.from
            IN  IF k = 1 /\ ~HasBit(At(cin, 12), zeroDeltaBit)
                THEN n = 0 /\ c.DeltaTime = 0
                ELSE /\ n >= 1 /\ n <= 4
                     /\ \A i \in 0..(n - 2) : At(cin, c.from + i) >= 128
                     /\ n < 4 => At(cin, c.from + n - 1) < 128
                     /\ c.DeltaTime = VarValue(cin, c.from, n)
                     /\ c.DeltaTime >= 0 /\ c.DeltaTime < 268435456

\* C15 witness: the octets 81 00 in front of a command were read as 128.
C15_Witness ==
    /\ cout # NoResult /\ cout.parsed
    /\ \E k \in 1..Len(cout.msg.Commands) :
          /\ cout.msg.Commands[k].at = cout.msg.Commands[k].from + 2
          /\ Octets(cin, cout.msg.Commands[k].from, cout.msg.Commands[k].at) = <<129, 0>>
          /\ cout.msg.Commands[k].DeltaTime = 128

\* C18: every delta-time octet and payload byte of every emitted Command
\* comes from an offset below listStart + LEN.
C18_ListStaysInside ==
    (cout # NoResult /\ cout.parsed /\ ~cout.panic) =>
        \A k \in 1..Len(cout.msg.Commands) :
            cout.msg.Commands[k].to <= cout.listStart + cout.Len

\* C19: for every buffer Decode accepts, every emitted Command has a
\* non-empty payload whose first byte is a status byte, and a non-negative
\* delta-time.
C19_StatusByteFirst ==
    (cout # NoResult /\ cout.err = "nil" /\ ~cout.panic) =>
        \A k \in 1..Len(cout.msg.Commands) :
            /\ Len(cout.msg.Commands[k].Payload) >= 1
            /\ cout.msg.Commands[k].Payload[1] >= 128
            /\ cout.msg.Commands[k].DeltaTime >= 0

(***************************************************************************)
(* Start and the binding of the two sockets                                *)
(***************************************************************************)
\* net.ListenPacket failed in the loop's goroutine
BindFailed(l) == pc[l] = "panic_listen"

\* the caller of Start has registered its handler on the Session it was
\* handed, or a loop of it has received a datagram
SessionUsed == session.handler # "nil" \/ hist.reads > 0

\* C17: a bind failure of either socket is surfaced to the caller of Start
\* at once: no Session is handed back and used while one of its receive
\* loops never started.
C17_BindFailureSurfaced == (\E l \in Loops : BindFailed(l)) => ~SessionUsed

\* C21: parseMIDIList terminates on every buffer and list header: its loop
\* runs at most LEN + 1 times.
C21_ParserTerminates ==
    (cout # NoResult /\ cout.parsed) => cout.iters <= cout.Len + 1

\* C21 witness: a list of data octets with no status to inherit took all
\* LEN + 1 iterations and returned.
C21_Witness ==
    /\ cout # NoResult /\ cout.parsed /\ ~cout.panic
    /\ cout.Len >= 3 /\ cout.iters = cout.Len + 1
    /\ At(cin, cout.listStart) < 128

(***************************************************************************)
(* Concurrent senders                                                      *)
(***************************************************************************)
\* each of the two threads has made one call, and both calls have returned
BothSent == \A t \in Callers : pc[t] = "idle" /\ call[t].op # "none"

\* C22: after two concurrent calls of SendMIDICommands the two Messages
\* carry different sequence numbers and SequenceNumber has advanced by
\* exactly 2 (mod 2^16).
C22_NoLostIncrement ==
    BothSent =>
        /\ call["t1"].m.SequenceNumber # call["t2"].m.SequenceNumber
        /\ session.SequenceNumber = (hist.seq0 + 2) % 65536
====
